---- MODULE Spec2Model ----
(***************************************************************************)
(* Model of the "spo file get" command (SpoFileGetCommand) of              *)
(* src/src/m365/spo/commands/file/file-get.ts: option validation           *)
(* (validate), request construction and dispatch (commandAction) and the   *)
(* two settlement callbacks of the single request.                         *)
(*                                                                         *)
(* JavaScript strings are sequences of one-character strings.  JavaScript  *)
(* values are tagged records [t, v]: t is "undefined", "string", "buffer"  *)
(* or "object".                                                            *)
(***************************************************************************)
EXTENDS Integers, Sequences, FiniteSets

\* Longest free-form id drawn from IdAlphabet (besides the GUID-shaped samples).
MaxIdLen == 2
\* Longest free-form url drawn from UrlAlphabet (besides SampleUrl).
MaxUrlLen == 2

(***************************************************************************)
(* JavaScript values                                                       *)
(***************************************************************************)
Undefined == [t |-> "undefined", v |-> <<>>]
Str(s) == [t |-> "string", v |-> s]
Buf(s) == [t |-> "buffer", v |-> s]
Obj(f) == [t |-> "object", v |-> f]

\* if (x) on an optional string: undefined and '' are both falsy.
Truthy(x) == x.t = "string" /\ x.v # <<>>

\* s.indexOf(c) for a one-character c: 0-based index of the first occurrence, -1 if none.
IndexOf(s, c) ==
  IF \E i \in 1..Len(s) : s[i] = c
  THEN (CHOOSE i \in 1..Len(s) : s[i] = c /\ \A j \in 1..(i - 1) : s[j] # c) - 1
  ELSE -1

\* Sequences over A of length at most n.
SeqsUpTo(A, n) == UNION {[1..k -> A] : k \in 0..n}

(***************************************************************************)
(* encodeURIComponent                                                      *)
(***************************************************************************)
Alpha == {"a", "b", "c", "d", "e", "f", "g", "h", "i", "j", "k", "l", "m",
          "n", "o", "p", "q", "r", "s", "t", "u", "v", "w", "x", "y", "z",
          "A", "B", "C", "D", "E", "F", "G", "H", "I", "J", "K", "L", "M",
          "N", "O", "P", "Q", "R", "S", "T", "U", "V", "W", "X", "Y", "Z"}
Digit == {"0", "1", "2", "3", "4", "5", "6", "7", "8", "9"}
\* The characters encodeURIComponent leaves alone: A-Z a-z 0-9 - _ . ! ~ * ' ( )
Unreserved == Alpha \cup Digit \cup {"-", "_", ".", "!", "~", "*", "'", "(", ")"}

\* The %XX escapes of the other ASCII characters used by the inputs.
PercentEscape ==
  [c \in {"/", "?", "&", "=", "@", "$", " ", "{", "}", ":"} |->
     CASE c = "/" -> <<"%", "2", "F">>
       [] c = "?" -> <<"%", "3", "F">>
       [] c = "&" -> <<"%", "2", "6">>
       [] c = "=" -> <<"%", "3", "D">>
       [] c = "@" -> <<"%", "4", "0">>
       [] c = "$" -> <<"%", "2", "4">>
       [] c = " " -> <<"%", "2", "0">>
       [] c = "{" -> <<"%", "7", "B">>
       [] c = "}" -> <<"%", "7", "D">>
       [] c = ":" -> <<"%", "3", "A">>]

RECURSIVE encodeURIComponentRaw(_)
encodeURIComponentRaw(s) ==
  IF s = <<>> THEN <<>>
  ELSE LET c == Head(s)
       IN (IF c \in Unreserved THEN <<c>> ELSE PercentEscape[c])
          \o encodeURIComponentRaw(Tail(s))

\* A plausible slip: the value is interpolated without encoding.
encodeURIComponentMissing(s) == s

encodeURIComponent(s) == encodeURIComponentRaw(s)

(***************************************************************************)
(* External validators (Utils.isValidGuid, SpoCommand.isValidSharePointUrl)*)
(***************************************************************************)
HexDigit == Digit \cup {"a", "b", "c", "d", "e", "f", "A", "B", "C", "D", "E", "F"}
GuidDashes == {9, 14, 19, 24}

\* 8-4-4-4-12 hexadecimal digits, case-insensitive.
isValidGuid(s) ==
  /\ Len(s) = 36
  /\ \A i \in 1..Len(s) : IF i \in GuidDashes THEN s[i] = "-" ELSE s[i] \in HexDigit

HttpsPrefix == <<"h", "t", "t", "p", "s", ":", "/", "/">>

Pass == [ok |-> TRUE, msg |-> <<>>]
Fail(m) == [ok |-> FALSE, msg |-> m]

\* true for a URL that starts with https://, an error string otherwise.
isValidSharePointUrl(url) ==
  IF Len(url) >= Len(HttpsPrefix) /\ SubSeq(url, 1, Len(HttpsPrefix)) = HttpsPrefix
  THEN Pass
  ELSE Fail(url \o <<" is not a valid SharePoint Online site URL">>)

(***************************************************************************)
(* validate()                                                              *)
(***************************************************************************)
WebUrlMissingMsg == <<"Required parameter webUrl missing">>
NotBothMsg == <<"Specify id or url, but not both">>
OneRequiredMsg == <<"Specify id or url, one is required">>
PathRequiredMsg == <<"The path should be specified when the --asFile option is used">>
PathMissingDirMsg == <<"Specified path where to save the file does not exits">>
MultipleModesMsg == <<"Specify to retrieve the file either as file, list item or string but not multiple">>
NotGuidMsg(id) == id \o <<" is not a valid GUID">>

\* lines 161-168
CheckWebUrl(o) ==
  IF ~Truthy(o.webUrl) THEN Fail(WebUrlMissingMsg)
  ELSE isValidSharePointUrl(o.webUrl.v)

\* A plausible slip: the negation is lost.
CheckGuidInverted(o) ==
  IF Truthy(o.id) /\ isValidGuid(o.id.v) THEN Fail(NotGuidMsg(o.id.v))
  ELSE Pass

\* lines 170-174
CheckGuid(o) ==
  IF Truthy(o.id) /\ ~isValidGuid(o.id.v) THEN Fail(NotGuidMsg(o.id.v))
  ELSE Pass

\* A plausible slip: the two messages exchanged.
CheckIdUrlSwapped(o) ==
  IF Truthy(o.id) /\ Truthy(o.url) THEN Fail(OneRequiredMsg)
  ELSE IF ~Truthy(o.id) /\ ~Truthy(o.url) THEN Fail(NotBothMsg)
  ELSE Pass

\* lines 176-182
CheckIdUrl(o) ==
  IF Truthy(o.id) /\ Truthy(o.url) THEN Fail(NotBothMsg)
  ELSE IF ~Truthy(o.id) /\ ~Truthy(o.url) THEN Fail(OneRequiredMsg)
  ELSE Pass

\* lines 184-190; dirExists is fs.existsSync(path.dirname(options.path)).
CheckPath(o, dirExists) ==
  IF o.asFile /\ ~Truthy(o.path) THEN Fail(PathRequiredMsg)
  ELSE IF Truthy(o.path) /\ ~dirExists THEN Fail(PathMissingDirMsg)
  ELSE Pass

\* A plausible slip: the list-item check forgets asString.
CheckModesNoString(o) ==
  IF o.asFile /\ (o.asListItem \/ o.asString) THEN Fail(MultipleModesMsg)
  ELSE IF o.asListItem /\ o.asFile THEN Fail(MultipleModesMsg)
  ELSE Pass

\* lines 192-202
CheckModes(o) ==
  IF o.asFile /\ (o.asListItem \/ o.asString) THEN Fail(MultipleModesMsg)
  ELSE IF o.asListItem /\ (o.asFile \/ o.asString) THEN Fail(MultipleModesMsg)
  ELSE Pass

\* The first failing check decides; true when none fails.
validate(o, dirExists) ==
  IF ~CheckWebUrl(o).ok THEN CheckWebUrl(o)
  ELSE IF ~CheckGuid(o).ok THEN CheckGuid(o)
  ELSE IF ~CheckIdUrl(o).ok THEN CheckIdUrl(o)
  ELSE IF ~CheckPath(o, dirExists).ok THEN CheckPath(o, dirExists)
  ELSE IF ~CheckModes(o).ok THEN CheckModes(o)
  ELSE Pass

(***************************************************************************)
(* commandAction(): request construction                                   *)
(***************************************************************************)
GetFileByIdOpen == <<"/", "_", "a", "p", "i", "/", "w", "e", "b", "/", "G", "e", "t", "F", "i", "l", "e", "B", "y", "I", "d", "(", "'">>
GetFileByIdClose == <<"'", ")">>
GetFileByPath == <<"/", "_", "a", "p", "i", "/", "w", "e", "b", "/", "G", "e", "t", "F", "i", "l", "e", "B", "y", "S", "e", "r", "v", "e", "r", "R", "e", "l", "a", "t", "i", "v", "e", "P", "a", "t", "h", "(", "D", "e", "c", "o", "d", "e", "d", "U", "r", "l", "=", "@", "f", ")">>
ExpandSuffix == <<"?", "$", "e", "x", "p", "a", "n", "d", "=", "L", "i", "s", "t", "I", "t", "e", "m", "A", "l", "l", "F", "i", "e", "l", "d", "s">>
ValueSuffix == <<"/", "$", "v", "a", "l", "u", "e">>
FParamOpen == <<"@", "f", "=", "'">>
FParamClose == <<"'">>
RetrievingPrefix == <<"R", "e", "t", "r", "i", "e", "v", "i", "n", "g", " ", "f", "i", "l", "e", " ", "f", "r", "o", "m", " ", "s", "i", "t", "e", " ">>
Ellipsis == <<".", ".", ".">>
SavedPrefix == <<"F", "i", "l", "e", " ", "s", "a", "v", "e", "d", " ", "a", "t", " ">>

\* lines 55-63: the endpoint, chosen by the locator.
BaseUrl(o) ==
  IF Truthy(o.id)
  THEN o.webUrl.v \o GetFileByIdOpen \o encodeURIComponent(o.id.v) \o GetFileByIdClose
  ELSE IF Truthy(o.url) THEN o.webUrl.v \o GetFileByPath
  ELSE <<>>

\* A plausible slip: only asFile asks for the raw value stream.
ModeSuffixFileOnly(o) ==
  IF o.asListItem THEN ExpandSuffix
  ELSE IF o.asFile THEN ValueSuffix
  ELSE <<>>

\* lines 56, 65-70: the mode suffix.
ModeSuffix(o) ==
  IF o.asListItem THEN ExpandSuffix
  ELSE IF o.asFile \/ o.asString THEN ValueSuffix
  ELSE <<>>

\* A plausible slip: '&' whenever anything was appended before.
AppendUrlParamAfterAny(options, o) ==
  IF Truthy(o.url)
  THEN options \o (IF options = <<>> THEN <<"?">> ELSE <<"&">>)
               \o FParamOpen \o encodeURIComponent(o.url.v) \o FParamClose
  ELSE options

\* lines 72-81: the @f parameter of url mode.
AppendUrlParam(options, o) ==
  IF Truthy(o.url)
  THEN options \o (IF IndexOf(options, "?") < 0 THEN <<"?">> ELSE <<"&">>)
               \o FParamOpen \o encodeURIComponent(o.url.v) \o FParamClose
  ELSE options

\* A plausible slip: every raw-value mode is sent to the download operation.
DispatchValueModes(o, url) ==
  IF o.asFile \/ o.asString
  THEN [op |-> "getLargeFile", url |-> url, path |-> o.path]
  ELSE [op |-> "get", url |-> url, path |-> Undefined]

\* lines 83-94, 102-104: the one request, request.getLargeFile(requestOptions, path)
\* or request.get(requestOptions).
Dispatch(o, url) ==
  IF o.asFile
  THEN [op |-> "getLargeFile", url |-> url, path |-> o.path]
  ELSE [op |-> "get", url |-> url, path |-> Undefined]

(***************************************************************************)
(* commandAction(): the settlement callbacks                               *)
(***************************************************************************)
Log(val) == [kind |-> "log", val |-> val, with |-> <<>>]
Cb == [kind |-> "cb", val |-> Undefined, with |-> <<>>]
HandleRejected(err) ==
  [kind |-> "handleRejectedODataJsonPromise", val |-> err, with |-> <<"cmd", "cb">>]

ObjectObject == <<"[", "o", "b", "j", "e", "c", "t", " ", "O", "b", "j", "e", "c", "t", "]">>

\* x.toString()
JsToString(x) ==
  CASE x.t = "string" -> x
    [] x.t = "buffer" -> Str(x.v)
    [] x.t = "object" -> Str(ObjectObject)

\* JSON.parse(JSON.stringify(x)): a deep copy without the undefined members; a
\* Buffer serialises as {type: 'Buffer', data: [...]}.
RECURSIVE JsonClone(_)
JsonClone(x) ==
  CASE x.t = "string" -> x
    [] x.t = "array" -> x
    [] x.t = "buffer" -> Obj([type |-> Str(<<"B", "u", "f", "f", "e", "r">>),
                              data |-> [t |-> "array", v |-> x.v]])
    [] x.t = "object" ->
         Obj([k \in {n \in DOMAIN x.v : x.v[n].t # "undefined"} |-> JsonClone(x.v[k])])

\* x.name
Prop(x, name) ==
  IF x.t = "object" /\ name \in DOMAIN x.v THEN x.v[name] ELSE Undefined

\* What getLargeFile resolves with: the location the file was saved at.
LargeFileResult(path) == path

\* A plausible slip: the callback runs before the confirmation is logged.
OnLargeFileSavedCbFirst(file, isVerbose) ==
  <<Cb>> \o (IF isVerbose THEN <<Log(Str(SavedPrefix \o JsToString(file).v))>> ELSE <<>>)

\* lines 95-99
OnLargeFileSaved(file, isVerbose) ==
  (IF isVerbose THEN <<Log(Str(SavedPrefix \o JsToString(file).v))>> ELSE <<>>) \o <<Cb>>

\* A plausible slip: the list-item branch prints the whole metadata object.
OnGetResolvedWholeObject(o, file) ==
  IF o.asString THEN <<Log(JsToString(file)), Cb>>
  ELSE <<Log(JsonClone(file)), Cb>>

\* lines 105-118
OnGetResolved(o, file) ==
  IF o.asString THEN <<Log(JsToString(file)), Cb>>
  ELSE IF o.asListItem THEN <<Log(Prop(JsonClone(file), "ListItemAllFields")), Cb>>
  ELSE <<Log(JsonClone(file)), Cb>>

\* A plausible slip: the rejection callback also completes the command itself.
OnRejectedAndCb(err) == <<HandleRejected(err), Cb>>

\* lines 100, 119: (err) => this.handleRejectedODataJsonPromise(err, cmd, cb)
OnRejected(err) == <<HandleRejected(err)>>

(***************************************************************************)
(* Inputs                                                                  *)
(***************************************************************************)
SampleGuid == <<"b", "2", "3", "0", "7", "a", "3", "9", "-", "e", "8", "7", "8", "-", "4", "5", "8", "b", "-", "b", "c", "9", "0", "-", "0", "3", "b", "c", "5", "7", "8", "5", "3", "1", "d", "6">>
UpperGuid == <<"B", "2", "3", "0", "7", "A", "3", "9", "-", "E", "8", "7", "8", "-", "4", "5", "8", "B", "-", "B", "C", "9", "0", "-", "0", "3", "B", "C", "5", "7", "8", "5", "3", "1", "D", "6">>
BadHexGuid == <<"g", "2", "3", "0", "7", "a", "3", "9", "-", "e", "8", "7", "8", "-", "4", "5", "8", "b", "-", "b", "c", "9", "0", "-", "0", "3", "b", "c", "5", "7", "8", "5", "3", "1", "d", "6">>
ShortGuid == <<"b", "2", "3", "0", "7", "a", "3", "9", "-", "e", "8", "7", "8", "-", "4", "5", "8", "b", "-", "b", "c", "9", "0", "-", "0", "3", "b", "c", "5", "7", "8", "5", "3", "1", "d">>
BracedGuid == <<"{", "b", "2", "3", "0", "7", "a", "3", "9", "-", "e", "8", "7", "8", "-", "4", "5", "8", "b", "-", "b", "c", "9", "0", "-", "0", "3", "b", "c", "5", "7", "8", "5", "3", "1", "d", "6", "}">>
SampleUrl == <<"/", "s", "i", "t", "e", "s", "/", "x", "/", "d", "o", "c", "u", "m", "e", "n", "t", "s", "/", "T", "e", "s", "t", "1", ".", "d", "o", "c", "x">>
SampleUrlEncoded == <<"%", "2", "F", "s", "i", "t", "e", "s", "%", "2", "F", "x", "%", "2", "F", "d", "o", "c", "u", "m", "e", "n", "t", "s", "%", "2", "F", "T", "e", "s", "t", "1", ".", "d", "o", "c", "x">>
GoodWebUrl == <<"h", "t", "t", "p", "s", ":", "/", "/", "c">>
BadWebUrl == <<"h", "t", "t", "p", ":", "/", "/", "c">>
SamplePath == <<"/", "t", "m", "p", "/", "f">>

IdAlphabet == {"a", "-"}
UrlAlphabet == {"/", "?", "'"}

WebUrls == {Undefined, Str(<<>>), Str(BadWebUrl), Str(GoodWebUrl)}
Ids == {Undefined}
       \cup {Str(s) : s \in SeqsUpTo(IdAlphabet, MaxIdLen)}
       \cup {Str(SampleGuid), Str(UpperGuid), Str(BadHexGuid), Str(ShortGuid), Str(BracedGuid)}
Urls == {Undefined}
        \cup {Str(s) : s \in SeqsUpTo(UrlAlphabet, MaxUrlLen)}
        \cup {Str(SampleUrl)}
Paths == {Undefined, Str(<<>>), Str(SamplePath)}

Options ==
  [webUrl : WebUrls, url : Urls, id : Ids,
   asString : BOOLEAN, asListItem : BOOLEAN, asFile : BOOLEAN, path : Paths]

\* What request.get may resolve with: the body as a Buffer (encoding: null) or,
\* when it parses as JSON, the parsed value.
ListItemFields == Obj([Id |-> Str(<<"1">>)])
GetResults ==
  {Buf(<<>>), Buf(<<"h", "i">>), Str(<<"h", "i">>),
   Obj([Name |-> Str(<<"f">>)]),
   Obj([Name |-> Str(<<"f">>), ListItemAllFields |-> ListItemFields])}

\* What either request may reject with.
Errors == {Str(<<"4", "0", "4">>), Obj([error |-> Str(<<"g", "o", "n", "e">>)])}

(***************************************************************************)
(* The command as a state machine                                          *)
(***************************************************************************)
VARIABLES
  args,        \* CommandArgs.options
  verbose,     \* this.verbose
  pc,          \* "init", "invalid", "validated", "pending", "done"
  result,      \* what validate() returned
  requestUrl,  \* local of commandAction
  options,     \* local of commandAction
  requests,    \* the calls made on the request object, in order
  settled,     \* "none", "resolved", "rejected": how the request's promise settled
  value,       \* what the promise settled with
  out          \* cmd.log, cb and rejection-handler calls, in order

vars == <<args, verbose, pc, result, requestUrl, options, requests, settled, value, out>>

Init ==
  /\ args \in Options
  /\ verbose \in BOOLEAN
  /\ pc = "init"
  /\ result = Pass
  /\ requestUrl = <<>>
  /\ options = <<>>
  /\ requests = <<>>
  /\ settled = "none"
  /\ value = Undefined
  /\ out = <<>>

\* The framework validates the options; the action runs only when validate()
\* returned true.
Validate ==
  /\ pc = "init"
  /\ \E dirExists \in BOOLEAN :
       /\ result' = validate(args, dirExists)
       /\ pc' = IF result'.ok THEN "validated" ELSE "invalid"
  /\ UNCHANGED <<args, verbose, requestUrl, options, requests, settled, value, out>>

\* lines 50-104: the synchronous part of commandAction.
CommandAction ==
  /\ pc = "validated"
  /\ out' = IF verbose
            THEN <<Log(Str(RetrievingPrefix \o args.webUrl.v \o Ellipsis))>>
            ELSE <<>>
  /\ requestUrl' = BaseUrl(args)
  /\ options' = AppendUrlParam(ModeSuffix(args), args)
  /\ requests' = Append(requests, Dispatch(args, requestUrl' \o options'))
  /\ pc' = "pending"
  /\ UNCHANGED <<args, verbose, result, settled, value>>

\* lines 95-99: getLargeFile resolved.
LargeFileResolved ==
  /\ pc = "pending"
  /\ requests[Len(requests)].op = "getLargeFile"
  /\ value' = LargeFileResult(requests[Len(requests)].path)
  /\ out' = out \o OnLargeFileSaved(value', verbose)
  /\ settled' = "resolved"
  /\ pc' = "done"
  /\ UNCHANGED <<args, verbose, result, requestUrl, options, requests>>

\* lines 105-118: get resolved.
GetResolved ==
  /\ pc = "pending"
  /\ requests[Len(requests)].op = "get"
  /\ \E file \in GetResults :
       /\ value' = file
       /\ out' = out \o OnGetResolved(args, file)
  /\ settled' = "resolved"
  /\ pc' = "done"
  /\ UNCHANGED <<args, verbose, result, requestUrl, options, requests>>

\* lines 100, 119: either request rejected.
Rejected ==
  /\ pc = "pending"
  /\ \E err \in Errors :
       /\ value' = err
       /\ out' = out \o OnRejected(err)
  /\ settled' = "rejected"
  /\ pc' = "done"
  /\ UNCHANGED <<args, verbose, result, requestUrl, options, requests>>

Next == Validate \/ CommandAction \/ LargeFileResolved \/ GetResolved \/ Rejected

Spec == Init /\ [][Next]_vars

TypeOK ==
  /\ pc \in {"init", "invalid", "validated", "pending", "done"}
  /\ settled \in {"none", "resolved", "rejected"}
  /\ Len(requests) <= 1

(***************************************************************************)
(* Vocabulary of the properties                                            *)
(***************************************************************************)
\* validate() has returned.
Validated == pc # "init"
\* commandAction() has built and issued its request.
Issued == pc \in {"pending", "done"}
\* How many mode flags are set.
ModeCount(o) ==
  (IF o.asString THEN 1 ELSE 0) + (IF o.asListItem THEN 1 ELSE 0) + (IF o.asFile THEN 1 ELSE 0)
\* s occurs in t as a contiguous part.
Contains(t, s) == \E i \in 1..(Len(t) - Len(s) + 1) : SubSeq(t, i, i + Len(s) - 1) = s
\* 1-based position of the first occurrence of s in t (0 if none).
FirstAt(t, s) ==
  IF Contains(t, s)
  THEN CHOOSE i \in 1..(Len(t) - Len(s) + 1) :
         /\ SubSeq(t, i, i + Len(s) - 1) = s
         /\ \A j \in 1..(i - 1) : SubSeq(t, j, j + Len(s) - 1) # s
  ELSE 0
\* How often the character c occurs in t.
Count(t, c) == Cardinality({i \in 1..Len(t) : t[i] = c})
StartsWith(t, s) == Len(t) >= Len(s) /\ SubSeq(t, 1, Len(s)) = s
\* The character right before the @f parameter in the options part.
Separator == options[FirstAt(options, FParamOpen) - 1]
\* The calls after the verbose "Retrieving..." line of commandAction's start.
Outcome == IF verbose THEN Tail(out) ELSE out
IdMode == Truthy(args.id) /\ ~Truthy(args.url)
UrlMode == Truthy(args.url)
KindCount(k) == Cardinality({i \in 1..Len(out) : out[i].kind = k})

(***************************************************************************)
(* C1                                                                      *)
(***************************************************************************)
\* C1 as stated: with a valid webUrl, a missing id and url give the "one is
\* required" error and a supplied id and url give the "not both" error,
\* whatever the other options are, a non-GUID id included.
C1_AsStated ==
  (Validated /\ CheckWebUrl(args).ok) =>
    /\ (~Truthy(args.id) /\ ~Truthy(args.url)) => result = Fail(OneRequiredMsg)
    /\ (Truthy(args.id) /\ Truthy(args.url)) => result = Fail(NotBothMsg)

\* C1 amended: with a valid webUrl, a missing (or empty) id and url give the
\* "one is required" error; a supplied id and url give the "not both" error
\* when the id is a valid GUID, and the "<id> is not a valid GUID" error when
\* it is not.
C1_IdUrlErrors ==
  (Validated /\ CheckWebUrl(args).ok) =>
    /\ (~Truthy(args.id) /\ ~Truthy(args.url)) => result = Fail(OneRequiredMsg)
    /\ (Truthy(args.id) /\ Truthy(args.url) /\ isValidGuid(args.id.v))
         => result = Fail(NotBothMsg)
    /\ (Truthy(args.id) /\ Truthy(args.url) /\ ~isValidGuid(args.id.v))
         => result = Fail(NotGuidMsg(args.id.v))

C1_Witness ==
  /\ pc = "invalid"
  /\ args.id = Str(SampleGuid) /\ args.url = Str(SampleUrl)
  /\ args.asFile /\ args.asString /\ ~Truthy(args.path)
  /\ result = Fail(NotBothMsg)

(***************************************************************************)
(* C2                                                                      *)
(***************************************************************************)
\* C2: an option set with two or more of asString, asListItem and asFile is
\* never accepted, so an accepted option set has at most one mode flag.
C2_ModesExclusive ==
  Validated =>
    /\ (ModeCount(args) >= 2 => ~result.ok)
    /\ (result.ok => ModeCount(args) <= 1)

C2_Witness ==
  /\ pc = "invalid"
  /\ args.asString /\ args.asListItem /\ ~args.asFile
  /\ result = Fail(MultipleModesMsg)

(***************************************************************************)
(* C3                                                                      *)
(***************************************************************************)
\* C3 as stated: every string passed as id that is not a valid GUID, the
\* empty string included, makes validation fail, whatever the other options.
C3_AsStated ==
  (Validated /\ args.id.t = "string" /\ ~isValidGuid(args.id.v)) => ~result.ok

\* C3 amended: every non-empty string passed as id that is not a valid GUID
\* makes validation fail, whatever the other options; the empty string is
\* taken as no id and never gives the GUID error.
C3_NonGuidRejected ==
  /\ (Validated /\ Truthy(args.id) /\ ~isValidGuid(args.id.v)) => ~result.ok
  /\ (Validated /\ args.id = Str(<<>>)) => result # Fail(NotGuidMsg(<<>>))

C3_Witness ==
  /\ pc = "invalid"
  /\ args.id = Str(BadHexGuid) /\ Truthy(args.url)
  /\ result = Fail(NotGuidMsg(BadHexGuid))

(***************************************************************************)
(* C4                                                                      *)
(***************************************************************************)
\* C4: in id mode the request URL is webUrl, /_api/web/GetFileById('<id>')
\* and the mode suffix (?$expand=ListItemAllFields if asListItem, else
\* /$value if asFile or asString, else nothing), and holds no @f parameter.
C4_IdModeUrl ==
  (Issued /\ IdMode) =>
    /\ requests[1].url =
         args.webUrl.v \o GetFileByIdOpen \o args.id.v \o GetFileByIdClose
         \o (IF args.asListItem THEN ExpandSuffix
             ELSE IF args.asFile \/ args.asString THEN ValueSuffix
             ELSE <<>>)
    /\ ~Contains(requests[1].url, <<"@", "f">>)

C4_Witness ==
  /\ pc = "pending" /\ IdMode /\ args.asString
  /\ requests[1].url
       = GoodWebUrl \o GetFileByIdOpen \o SampleGuid \o GetFileByIdClose \o ValueSuffix

(***************************************************************************)
(* C5                                                                      *)
(***************************************************************************)
\* C5 as stated: in url mode the separator before @f is '&' when a mode
\* suffix was appended (asListItem, asFile or asString) and '?' otherwise.
C5_AsStated ==
  (Issued /\ UrlMode) =>
    Separator = (IF args.asListItem \/ args.asFile \/ args.asString THEN "&" ELSE "?")

\* C5 amended: in url mode the separator before @f is '&' when the appended
\* suffix holds a '?' (asListItem) and '?' otherwise (no suffix, or the
\* /$value suffix of asFile and asString).
C5_Separator ==
  (Issued /\ UrlMode) =>
    /\ Contains(options, FParamOpen)
    /\ Separator = (IF args.asListItem THEN "&" ELSE "?")

C5_Witness ==
  /\ pc = "pending" /\ UrlMode /\ args.asString
  /\ options = ValueSuffix \o <<"?">> \o FParamOpen \o SampleUrlEncoded \o FParamClose

(***************************************************************************)
(* C6                                                                      *)
(***************************************************************************)
\* C6: in url mode the options part appended to
\* GetFileByServerRelativePath(DecodedUrl=@f) holds exactly one '?', which
\* comes before the @f parameter; with asListItem it is
\* ?$expand=ListItemAllFields&@f='<the percent-encoded url>'.
C6_OneQuestionMark ==
  (Issued /\ UrlMode) =>
    /\ requests[1].url = args.webUrl.v \o GetFileByPath \o options
    /\ Count(options, "?") = 1
    /\ FirstAt(options, <<"?">>) < FirstAt(options, FParamOpen)
    /\ args.asListItem =>
         /\ StartsWith(options, ExpandSuffix \o <<"&">> \o FParamOpen)
         /\ options[Len(options)] = "'"
         /\ Count(options, "/") = 0
    /\ (args.asListItem /\ args.url = Str(SampleUrl)) =>
         options = ExpandSuffix \o <<"&">> \o FParamOpen \o SampleUrlEncoded \o FParamClose

C6_Witness ==
  /\ pc = "pending" /\ args.asListItem /\ args.url = Str(SampleUrl)
  /\ options = ExpandSuffix \o <<"&">> \o FParamOpen \o SampleUrlEncoded \o FParamClose

(***************************************************************************)
(* C7                                                                      *)
(***************************************************************************)
\* C7: an invocation issues exactly one request: getLargeFile with
\* options.path (which is set) when asFile, get otherwise, and never a
\* second one.
C7_OneRequest ==
  /\ Len(requests) <= 1
  /\ ~Issued => requests = <<>>
  /\ Issued =>
       /\ Len(requests) = 1
       /\ IF args.asFile
          THEN /\ requests[1].op = "getLargeFile"
               /\ requests[1].path = args.path
               /\ Truthy(args.path)
          ELSE requests[1].op = "get"

C7_Witness ==
  /\ pc = "done" /\ args.asFile
  /\ Len(requests) = 1
  /\ requests[1].op = "getLargeFile" /\ requests[1].path = Str(SamplePath)

(***************************************************************************)
(* C8                                                                      *)
(***************************************************************************)
SavedLine == Log(Str(SavedPrefix \o args.path.v))

\* C8 as stated: whenever the download succeeds, a confirmation naming the
\* saved location is logged before the callback is called, whatever the
\* verbose setting.
C8_AsStated ==
  (pc = "done" /\ args.asFile /\ settled = "resolved") =>
    \E i, j \in 1..Len(out) : i < j /\ out[i] = SavedLine /\ out[j] = Cb

\* C8 amended: when the download succeeds and verbose is set, the
\* confirmation "File saved at <location>" is logged and then the callback is
\* called; when verbose is not set the callback is called and nothing is
\* logged.
C8_SavedThenCb ==
  (pc = "done" /\ args.asFile /\ settled = "resolved") =>
    Outcome = (IF verbose THEN <<SavedLine, Cb>> ELSE <<Cb>>)

C8_Witness ==
  /\ pc = "done" /\ args.asFile /\ settled = "resolved" /\ verbose
  /\ Len(out) = 3
  /\ out[2] = Log(Str(SavedPrefix \o SamplePath))
  /\ out[3] = Cb

(***************************************************************************)
(* C9                                                                      *)
(***************************************************************************)
\* What the claim says is printed for the response x in each mode.
Printed(x) ==
  IF args.asString THEN (IF x.t = "buffer" THEN Str(x.v) ELSE x)
  ELSE IF args.asListItem
       THEN (IF x.t = "object" /\ "ListItemAllFields" \in DOMAIN x.v
             THEN x.v.ListItemAllFields ELSE Undefined)
       ELSE x

\* The response has the shape the mode asks the service for: text for
\* asString, a JSON value otherwise.
Matches(x) ==
  IF args.asString THEN x.t \in {"string", "buffer"}
  ELSE IF args.asListItem THEN TRUE
  ELSE x.t \in {"string", "object"}

C10_RejectionHandled ==
  /\ (pc = "done" /\ settled = "rejected") =>
       /\ Outcome = <<HandleRejected(value)>>
       /\ Outcome[1].with = <<"cmd", "cb">>
       /\ Len(requests) = 1
  /\ pc = "done" =>
       /\ settled # "none"
       /\ KindCount("cb") + KindCount("handleRejectedODataJsonPromise") = 1
       /\ (KindCount("cb") = 1) = (settled = "resolved")
  /\ pc # "done" =>
       /\ settled = "none"
       /\ KindCount("cb") + KindCount("handleRejectedODataJsonPromise") = 0

C10_Witness ==
  /\ pc = "done" /\ settled = "rejected" /\ args.asFile
  /\ out[Len(out)].kind = "handleRejectedODataJsonPromise"

====
